---- MODULE Spec2Model ----
(***************************************************************************)
(* Card auto-refill service (src/app.py): two process-wide balances, the   *)
(* /use-card handler that withdraws from the card and tops it up by        *)
(* selling ETH, the /status handler, and the advisory parser.              *)
(*                                                                         *)
(* Arithmetic is fixed point.  Dollar amounts are integers in units of     *)
(* 1/10000 USD, ETH amounts are integers in gwei (1e-9 ETH), gas prices    *)
(* are whole gwei.  With the request amounts and oracle replies drawn      *)
(* below every product and quotient of the handlers is exact in these      *)
(* units.                                                                  *)
(***************************************************************************)
EXTENDS Integers, Sequences, FiniteSets, TLC

\* ------------------------------------------------------------------ units
USD == 10000
ETH == 1000000000

\* ------------------------------------------------------------- bounds
MaxRequests == 4
MaxStatus == 1
MaxOverlap == 2

\* ---------------------------------------------------------- constants
CARD_MIN_THRESHOLD == 100 * USD
CARD_TARGET_BALANCE == 200 * USD
MINIMUM_PROFITABLE_USD == 50 * USD
GAS_LIMIT == 21000
\* PROFIT_MARGIN = 1.05, as a percentage
PROFIT_MARGIN == 105
\* the fallbacks of get_eth_price (USD per ETH) and get_gas_price (gwei)
FALLBACK_ETH_PRICE == 2000
FALLBACK_GAS_PRICE == 50
\* round(x, 2) keeps cents, round(x, 4) keeps 1e-4 ETH
CENT == USD \div 100
ETH4 == ETH \div 10000
HALF_ETH == ETH \div 2

\* ------------------------------------------------------------- helpers
Max(a, b) == IF a >= b THEN a ELSE b
Min(a, b) == IF a <= b THEN a ELSE b
Abs(a) == IF a < 0 THEN -a ELSE a

\* floor(a * b / c) for a >= 0, b >= 0, c > 0 without a wide intermediate
MulDiv(a, b, c) == (a \div c) * b + ((a % c) * b) \div c

\* Python's round(): to the nearest multiple of q, ties to even (x >= 0)
Round(x, q) ==
  LET r == x % q
      lo == x - r
  IN IF 2 * r < q THEN lo
     ELSE IF 2 * r > q THEN lo + q
     ELSE IF (lo \div q) % 2 = 0 THEN lo ELSE lo + q

\* --------------------------------------------------- Market Data Adapter
\* get_eth_price: line 78 reads the undefined name price_feed_address (the
\* module defines PRICE_FEED_ADDRESS), so the call raises NameError on every
\* invocation and the handler returns the fallback.
get_eth_price == FALLBACK_ETH_PRICE

\* get_gas_price: the node's reply in gwei, or the fallback when the call
\* fails.  g is the oracle's reply [ok, gwei].
get_gas_price(g) == IF g.ok THEN g.gwei ELSE FALLBACK_GAS_PRICE

GasReplies == {[ok |-> FALSE, gwei |-> 0], [ok |-> TRUE, gwei |-> 1500]}

\* ----------------------------------------------- Profitability Calculator
\* gas price (gwei) * gas limit = fee in gwei of ETH; * price = fee in USD
calculate_transaction_cost(eth_price, g) ==
  LET gas_price_gwei == get_gas_price(g)
      transaction_fee_eth == gas_price_gwei * GAS_LIMIT
  IN MulDiv(transaction_fee_eth, eth_price, ETH \div USD)

calculate_minimum_profitable_amount(eth_price, g) ==
  LET tx_cost_usd == calculate_transaction_cost(eth_price, g)
      min_amount == Max(MINIMUM_PROFITABLE_USD, MulDiv(tx_cost_usd, PROFIT_MARGIN, 100))
  IN Round(min_amount, CENT)

\* -------------------------------------------------------- Advisory Engine
\* A reply of the text generator: the call fails (ok = FALSE) or returns
\* lines.  A line is [key, word, num]: key is the prefix the parser tests
\* with startswith, word the text after it, num the number float() reads
\* from an AMOUNT line (gwei).
ActionWords == {"BUY", "SELL", "HOLD", "WAIT"}
AmountTokens == {0 - ETH, 0, ETH \div 20, 2 * ETH}
ActionLines == {[key |-> "ACTION:", word |-> w, num |-> 0] : w \in ActionWords}
AmountLines ==
  {[key |-> "AMOUNT:", word |-> "ETH", num |-> n] : n \in AmountTokens}
    \cup {[key |-> "AMOUNT:", word |-> "a lot", num |-> 0]}
ReasonLine == [key |-> "REASON:", word |-> "market", num |-> 0]
\* the replies drawn: a failed call, no recognised line, and the ACTION,
\* AMOUNT and REASON lines of the requested format, in either order
Replies ==
  {[ok |-> FALSE, lines |-> <<>>], [ok |-> TRUE, lines |-> <<>>]}
    \cup {[ok |-> TRUE, lines |-> <<a>>] : a \in ActionLines}
    \cup {[ok |-> TRUE, lines |-> <<m>>] : m \in AmountLines}
    \cup {[ok |-> TRUE, lines |-> <<a, m>>] : a \in ActionLines, m \in AmountLines}
    \cup {[ok |-> TRUE, lines |-> <<m, a>>] : a \in ActionLines, m \in AmountLines}
    \cup {[ok |-> TRUE, lines |-> <<a, m, ReasonLine>>] : a \in ActionLines, m \in AmountLines}

\* str.lower() on the words an ACTION line carries
Lower(w) ==
  CASE w = "BUY" -> "buy"
    [] w = "SELL" -> "sell"
    [] w = "HOLD" -> "hold"
    [] OTHER -> "wait"

\* float(amount_str) after 'eth' is removed: raises on anything but a number
FloatParses(line) == line.word = "ETH"

\* the for loop of lines 162-171 over lines[i..]; st.raised records the
\* ValueError of float(), which ends the loop
RECURSIVE ParseLines(_, _, _)
ParseLines(lines, i, st) ==
  IF i > Len(lines) THEN st
  ELSE LET line == lines[i]
       IN IF line.key = "ACTION:"
            THEN ParseLines(lines, i + 1, [st EXCEPT !.action = Lower(line.word)])
          ELSE IF line.key = "AMOUNT:"
            THEN IF FloatParses(line)
                   THEN ParseLines(lines, i + 1, [st EXCEPT !.amount = line.num])
                   ELSE [st EXCEPT !.raised = TRUE]
          ELSE IF line.key = "REASON:"
            THEN ParseLines(lines, i + 1, [st EXCEPT !.reason = line.word])
          ELSE ParseLines(lines, i + 1, st)

\* a variant that clamps a buy as it clamps a sell, by the parsed amount
Clamp_buy_by_parsed_amount(action, amount, balance_eth) ==
  IF action \in {"buy", "sell"} THEN Min(amount, balance_eth \div 2)
  ELSE 0

\* lines 174-182: the clamp of the parsed amount by action
Clamp(action, amount, balance_eth) ==
  IF action = "buy" THEN Min(HALF_ETH, balance_eth \div 2)
  ELSE IF action = "sell" THEN Min(amount, balance_eth \div 2)
  ELSE 0

get_ai_trading_suggestion(reply, balance_eth) ==
  IF ~reply.ok
    THEN [action |-> "hold", amount |-> 0, reason |-> "Unable to get AI suggestion"]
  ELSE
    LET st == ParseLines(reply.lines, 1,
                [action |-> "hold", amount |-> 0,
                 reason |-> "Unable to parse AI suggestion", raised |-> FALSE])
    IN IF st.raised
         THEN [action |-> "hold", amount |-> 0, reason |-> "Error parsing AI suggestion"]
       ELSE
         [action |-> IF st.action \in {"buy", "sell"} THEN st.action ELSE "hold",
          amount |-> Round(Abs(Clamp(st.action, st.amount, balance_eth)), ETH4),
          reason |-> st.reason]

\* --------------------------------------------------------- Balance Ledger
\* a variant with the threshold itself below the threshold
check_card_balance_inclusive(balance) ==
  IF balance <= CARD_MIN_THRESHOLD
    THEN [action |-> "top-up", amount |-> Round(CARD_TARGET_BALANCE - balance, CENT)]
    ELSE [action |-> "skip", amount |-> 0]

check_card_balance(balance) ==
  IF balance < CARD_MIN_THRESHOLD
    THEN [action |-> "top-up", amount |-> Round(CARD_TARGET_BALANCE - balance, CENT)]
    ELSE [action |-> "skip", amount |-> 0]

\* ------------------------------------------------------------------ state
\* One slot per request task of the event loop.  Task Main alone serves the
\* requests of the serial specification.
Tasks == {1, 2}
Main == 1

VARIABLES
  CURRENT_CARD_BALANCE,   \* global, line 41 (1/10000 USD)
  CURRENT_ETH_BALANCE,    \* global, line 42 (gwei)
  pc,                     \* per task: "idle" or the await it is suspended at
  loc,                    \* per task: the handler's local variables
  resp,                   \* per task: the response of its last request
  pre,                    \* per task: the balances when its request arrived
  nreq,                   \* /use-card requests received
  nstatus                 \* /status requests received

vars == <<CURRENT_CARD_BALANCE, CURRENT_ETH_BALANCE, pc, loc, resp, pre, nreq, nstatus>>

\* request bodies: amounts in dollars, currency strings
Amounts == {0, 40 * USD, 50 * USD, 60 * USD, 120 * USD, 200 * USD, 250 * USD}
Currencies == {"USD", "ETH", "BTC"}

NoLocals ==
  [handler |-> "none", amount_usd |-> 0, eth_price |-> 0, min_profitable_amount |-> 0,
   target_gap |-> 0, min_topup |-> 0, eth_amount |-> 0, balance_eth |-> 0,
   card_balance |-> 0, gas_price |-> 0]
NoResponse == [code |-> 0, detail |-> "", body |-> <<>>]

Init ==
  /\ CURRENT_CARD_BALANCE = 200 * USD
  /\ CURRENT_ETH_BALANCE = ETH \div 5
  /\ pc = [p \in Tasks |-> "idle"]
  /\ loc = [p \in Tasks |-> NoLocals]
  /\ resp = [p \in Tasks |-> NoResponse]
  /\ pre = [p \in Tasks |-> [card |-> 200 * USD, eth |-> ETH \div 5]]
  /\ nreq = 0
  /\ nstatus = 0

\* ---------------------------------------------------------- /use-card
\* TransactionRequest's validators (lines 49-59); FastAPI answers 422
\* before the handler runs when one raises.
RequestValid(amount, currency) == amount > 0 /\ currency \in {"ETH", "USD"}

\* lines 288-290: every exception raised in the handler's try block, the
\* handler's own HTTPException(400) included, is answered with status 500
\* and the exception's text.
use_card_except(e) == [code |-> 500, detail |-> e.detail, body |-> <<>>]

\* lines 249-260: the profitability check, the sufficiency check and the
\* withdrawal, in the handler's order; raised is the detail of the
\* HTTPException(400) a check raises, card the balance the block leaves
use_card_checks_debit_first(card, amount_usd, min_profitable_amount) ==
  IF amount_usd < min_profitable_amount
    THEN [raised |-> "Amount too low for profitable transaction", card |-> card]
  ELSE IF card < amount_usd
    THEN [raised |-> "Insufficient card balance", card |-> card - amount_usd]
  ELSE [raised |-> "", card |-> card - amount_usd]

\* a variant with the sufficiency check ahead of the profitability check
use_card_checks_sufficiency_first(card, amount_usd, min_profitable_amount) ==
  IF card < amount_usd
    THEN [raised |-> "Insufficient card balance", card |-> card]
  ELSE IF amount_usd < min_profitable_amount
    THEN [raised |-> "Amount too low for profitable transaction", card |-> card]
  ELSE [raised |-> "", card |-> card - amount_usd]

use_card_checks(card, amount_usd, min_profitable_amount) ==
  IF amount_usd < min_profitable_amount
    THEN [raised |-> "Amount too low for profitable transaction", card |-> card]
  ELSE IF card < amount_usd
    THEN [raised |-> "Insufficient card balance", card |-> card]
  ELSE [raised |-> "", card |-> card - amount_usd]

\* line 263
NeedsTopup_wrong_constant(card) == card < MINIMUM_PROFITABLE_USD
NeedsTopup_inverted(card) == card >= CARD_MIN_THRESHOLD
NeedsTopup_inclusive(card) == card <= CARD_MIN_THRESHOLD

NeedsTopup(card) == card < CARD_MIN_THRESHOLD
\* lines 265-268: max() of the gap to the target and twice the minimum
MinTopup(target_gap, min_profitable_amount) == Max(target_gap, min_profitable_amount * 2)
\* lines 298-299: the ETH to sell for target_usd_amount
EthAmount(target_usd_amount, gas_cost, eth_price) ==
  LET required_amount == MulDiv(target_usd_amount, PROFIT_MARGIN, 100) + gas_cost
  IN MulDiv(required_amount, ETH \div USD, eth_price)
\* line 302
InsufficientEth(eth_amount, eth_balance) == eth_amount > eth_balance
\* line 309
AdvisoryHolds(suggestion, eth_amount) ==
  suggestion.action = "hold" /\ suggestion.amount > eth_amount
\* line 329
simulate_eth_sale(eth_balance, eth_amount) == eth_balance - eth_amount
\* line 345
auto_topup_credit(card, amount_usd) == card + amount_usd
\* line 271
use_card_credit(card, min_topup) == card + min_topup
\* a variant of lines 274-275 that leaves the wallet as the sale left it
use_card_debit_eth_skipped(eth_balance, min_topup, eth_price) == eth_balance

\* lines 274-275
use_card_debit_eth(eth_balance, min_topup, eth_price) ==
  eth_balance - MulDiv(min_topup, ETH \div USD, eth_price)

\* lines 277-287
SuccessResponse(amount_usd, card, eth_balance, eth_price, min_profitable_amount) ==
  [code |-> 200, detail |-> "Card Transaction Successful",
   body |-> [amount |-> amount_usd, new_balance |-> card,
             new_metamask_balance_usd |-> MulDiv(Abs(eth_balance), eth_price, ETH \div USD)
                                            * (IF eth_balance < 0 THEN -1 ELSE 1),
             new_eth_balance |-> eth_balance,
             min_profitable_amount |-> min_profitable_amount]]

\* the request arrives: validation, then line 244, suspended at line 245
use_card_begin(p, amount, currency) ==
  /\ pc[p] = "idle"
  /\ nreq' = nreq + 1
  /\ pre' = [pre EXCEPT ![p] = [card |-> CURRENT_CARD_BALANCE, eth |-> CURRENT_ETH_BALANCE]]
  /\ IF RequestValid(amount, currency)
       THEN /\ pc' = [pc EXCEPT ![p] = "use_card_245"]
            /\ loc' = [loc EXCEPT ![p] = [NoLocals EXCEPT !.handler = "use_card",
                                                           !.amount_usd = amount]]
            /\ resp' = [resp EXCEPT ![p] = NoResponse]
       ELSE /\ pc' = pc
            /\ loc' = [loc EXCEPT ![p] = [NoLocals EXCEPT !.handler = "use_card"]]
            /\ resp' = [resp EXCEPT ![p] =
                          [code |-> 422, detail |-> "validation error", body |-> <<>>]]
  /\ UNCHANGED <<CURRENT_CARD_BALANCE, CURRENT_ETH_BALANCE, nstatus>>

\* line 245: await get_eth_price()
use_card_245(p) ==
  /\ pc[p] = "use_card_245"
  /\ loc' = [loc EXCEPT ![p].eth_price = get_eth_price]
  /\ pc' = [pc EXCEPT ![p] = "use_card_246"]
  /\ UNCHANGED <<CURRENT_CARD_BALANCE, CURRENT_ETH_BALANCE, resp, pre, nreq, nstatus>>

\* a variant of the step of line 246 with a suspension point between the
\* sufficiency check and the debit: the check sees the balance the request
\* found on arrival, the debit applies to the balance of the moment
use_card_246_check_then_suspend(p, g) ==
  /\ pc[p] = "use_card_246"
  /\ LET amount_usd == loc[p].amount_usd
         min_profitable_amount == calculate_minimum_profitable_amount(loc[p].eth_price, g)
         stale == use_card_checks(pre[p].card, amount_usd, min_profitable_amount)
         checked == [raised |-> stale.raised,
                     card |-> IF stale.raised = ""
                                THEN CURRENT_CARD_BALANCE - amount_usd
                                ELSE CURRENT_CARD_BALANCE]
         l1 == [loc[p] EXCEPT !.min_profitable_amount = min_profitable_amount]
     IN /\ CURRENT_CARD_BALANCE' = checked.card
        /\ IF checked.raised # ""
             THEN /\ resp' = [resp EXCEPT ![p] =
                                use_card_except([code |-> 400, detail |-> checked.raised])]
                  /\ pc' = [pc EXCEPT ![p] = "idle"]
                  /\ loc' = [loc EXCEPT ![p] = l1]
           ELSE IF NeedsTopup(checked.card)
             THEN /\ pc' = [pc EXCEPT ![p] = "use_card_267"]
                  /\ loc' = [loc EXCEPT ![p] =
                               [l1 EXCEPT !.target_gap = CARD_TARGET_BALANCE - checked.card]]
                  /\ UNCHANGED resp
           ELSE /\ pc' = [pc EXCEPT ![p] = "idle"]
                /\ loc' = [loc EXCEPT ![p] = l1]
                /\ resp' = [resp EXCEPT ![p] =
                              SuccessResponse(amount_usd, checked.card, CURRENT_ETH_BALANCE,
                                              loc[p].eth_price, min_profitable_amount)]
  /\ UNCHANGED <<CURRENT_ETH_BALANCE, pre, nreq, nstatus>>

\* line 246: await calculate_minimum_profitable_amount(eth_price), then
\* lines 249-266 up to the next await: the checks and the withdrawal, the
\* threshold test and the first argument of max(), which Python evaluates
\* before it awaits the second.
use_card_246(p, g) ==
  /\ pc[p] = "use_card_246"
  /\ LET amount_usd == loc[p].amount_usd
         min_profitable_amount == calculate_minimum_profitable_amount(loc[p].eth_price, g)
         checked == use_card_checks(CURRENT_CARD_BALANCE, amount_usd, min_profitable_amount)
         l1 == [loc[p] EXCEPT !.min_profitable_amount = min_profitable_amount]
     IN /\ CURRENT_CARD_BALANCE' = checked.card
        /\ IF checked.raised # ""
             THEN /\ resp' = [resp EXCEPT ![p] =
                                use_card_except([code |-> 400, detail |-> checked.raised])]
                  /\ pc' = [pc EXCEPT ![p] = "idle"]
                  /\ loc' = [loc EXCEPT ![p] = l1]
           ELSE IF NeedsTopup(checked.card)
             THEN /\ pc' = [pc EXCEPT ![p] = "use_card_267"]
                  /\ loc' = [loc EXCEPT ![p] =
                               [l1 EXCEPT !.target_gap = CARD_TARGET_BALANCE - checked.card]]
                  /\ UNCHANGED resp
           ELSE /\ pc' = [pc EXCEPT ![p] = "idle"]
                /\ loc' = [loc EXCEPT ![p] = l1]
                /\ resp' = [resp EXCEPT ![p] =
                              SuccessResponse(amount_usd, checked.card, CURRENT_ETH_BALANCE,
                                              loc[p].eth_price, min_profitable_amount)]
  /\ UNCHANGED <<CURRENT_ETH_BALANCE, pre, nreq, nstatus>>

\* line 267: await calculate_minimum_profitable_amount(eth_price); then
\* line 270 enters auto_topup and auto_sell_eth_for_card, suspended at 294
use_card_267(p, g) ==
  /\ pc[p] = "use_card_267"
  /\ loc' = [loc EXCEPT ![p].min_topup =
               MinTopup(loc[p].target_gap,
                        calculate_minimum_profitable_amount(loc[p].eth_price, g))]
  /\ pc' = [pc EXCEPT ![p] = "auto_sell_294"]
  /\ UNCHANGED <<CURRENT_CARD_BALANCE, CURRENT_ETH_BALANCE, resp, pre, nreq, nstatus>>

\* line 294: await get_eth_price() (auto_sell_eth_for_card's own price)
auto_sell_294(p) ==
  /\ pc[p] = "auto_sell_294"
  /\ pc' = [pc EXCEPT ![p] = "auto_sell_295"]
  /\ UNCHANGED <<CURRENT_CARD_BALANCE, CURRENT_ETH_BALANCE, loc, resp, pre, nreq, nstatus>>

\* auto_sell_295 with auto_topup's credit (line 345) made before the sale
\* is known to have succeeded
auto_sell_295_credit_first(p, g) ==
  /\ pc[p] = "auto_sell_295"
  /\ LET eth_price == get_eth_price
         gas_cost == calculate_transaction_cost(eth_price, g)
         eth_amount == EthAmount(loc[p].min_topup, gas_cost, eth_price)
     IN IF InsufficientEth(eth_amount, CURRENT_ETH_BALANCE)
          THEN /\ resp' = [resp EXCEPT ![p] = use_card_except(
                              [code |-> 0, detail |-> "Insufficient ETH balance"])]
               /\ pc' = [pc EXCEPT ![p] = "idle"]
               /\ loc' = [loc EXCEPT ![p].eth_amount = eth_amount]
               /\ CURRENT_CARD_BALANCE' =
                    auto_topup_credit(CURRENT_CARD_BALANCE, loc[p].min_topup)
          ELSE /\ pc' = [pc EXCEPT ![p] = "auto_sell_306"]
               /\ loc' = [loc EXCEPT ![p].eth_amount = eth_amount,
                                     ![p].balance_eth = CURRENT_ETH_BALANCE]
               /\ UNCHANGED <<resp, CURRENT_CARD_BALANCE>>
  /\ UNCHANGED <<CURRENT_ETH_BALANCE, pre, nreq, nstatus>>

\* line 295: await calculate_transaction_cost(eth_price); lines 298-306:
\* the ETH needed, the balance check (the ValueError travels through
\* auto_topup to use_card's handler), and the balance passed to the
\* advisory call, read before that call suspends
auto_sell_295(p, g) ==
  /\ pc[p] = "auto_sell_295"
  /\ LET eth_price == get_eth_price
         gas_cost == calculate_transaction_cost(eth_price, g)
         eth_amount == EthAmount(loc[p].min_topup, gas_cost, eth_price)
     IN IF InsufficientEth(eth_amount, CURRENT_ETH_BALANCE)
          THEN /\ resp' = [resp EXCEPT ![p] = use_card_except(
                              [code |-> 0, detail |-> "Insufficient ETH balance"])]
               /\ pc' = [pc EXCEPT ![p] = "idle"]
               /\ loc' = [loc EXCEPT ![p].eth_amount = eth_amount]
          ELSE /\ pc' = [pc EXCEPT ![p] = "auto_sell_306"]
               /\ loc' = [loc EXCEPT ![p].eth_amount = eth_amount,
                                     ![p].balance_eth = CURRENT_ETH_BALANCE]
               /\ UNCHANGED resp
  /\ UNCHANGED <<CURRENT_CARD_BALANCE, CURRENT_ETH_BALANCE, pre, nreq, nstatus>>

\* line 306: await get_ai_trading_suggestion(...); lines 309-313 (veto or
\* sale), auto_topup's credit (345), then use_card's lines 271-287
auto_sell_306(p, reply) ==
  /\ pc[p] = "auto_sell_306"
  /\ LET suggestion == get_ai_trading_suggestion(reply, loc[p].balance_eth)
         eth_sold == simulate_eth_sale(CURRENT_ETH_BALANCE, loc[p].eth_amount)
         card == use_card_credit(auto_topup_credit(CURRENT_CARD_BALANCE, loc[p].min_topup),
                                 loc[p].min_topup)
         eth_balance == use_card_debit_eth(eth_sold, loc[p].min_topup, loc[p].eth_price)
     IN IF AdvisoryHolds(suggestion, loc[p].eth_amount)
          THEN /\ resp' = [resp EXCEPT ![p] = use_card_except(
                              [code |-> 0, detail |-> "AI suggests holding"])]
               /\ UNCHANGED <<CURRENT_CARD_BALANCE, CURRENT_ETH_BALANCE>>
          ELSE /\ CURRENT_CARD_BALANCE' = card
               /\ CURRENT_ETH_BALANCE' = eth_balance
               /\ resp' = [resp EXCEPT ![p] =
                             SuccessResponse(loc[p].amount_usd, card, eth_balance,
                                             loc[p].eth_price, loc[p].min_profitable_amount)]
  /\ pc' = [pc EXCEPT ![p] = "idle"]
  /\ UNCHANGED <<loc, pre, nreq, nstatus>>

\* ------------------------------------------------------------- /status
\* line 215 reads the card balance, then the handler suspends at line 216
status_begin(p) ==
  /\ pc[p] = "idle"
  /\ nstatus' = nstatus + 1
  /\ pre' = [pre EXCEPT ![p] = [card |-> CURRENT_CARD_BALANCE, eth |-> CURRENT_ETH_BALANCE]]
  /\ pc' = [pc EXCEPT ![p] = "status_216"]
  /\ loc' = [loc EXCEPT ![p] = [NoLocals EXCEPT !.handler = "status",
                                                 !.card_balance = CURRENT_CARD_BALANCE]]
  /\ resp' = [resp EXCEPT ![p] = NoResponse]
  /\ UNCHANGED <<CURRENT_CARD_BALANCE, CURRENT_ETH_BALANCE, nreq>>

\* line 216: await get_eth_price()
status_216(p) ==
  /\ pc[p] = "status_216"
  /\ loc' = [loc EXCEPT ![p].eth_price = get_eth_price]
  /\ pc' = [pc EXCEPT ![p] = "status_217"]
  /\ UNCHANGED <<CURRENT_CARD_BALANCE, CURRENT_ETH_BALANCE, resp, pre, nreq, nstatus>>

\* line 217: await get_gas_price()
status_217(p, g) ==
  /\ pc[p] = "status_217"
  /\ loc' = [loc EXCEPT ![p].gas_price = get_gas_price(g)]
  /\ pc' = [pc EXCEPT ![p] = "status_218"]
  /\ UNCHANGED <<CURRENT_CARD_BALANCE, CURRENT_ETH_BALANCE, resp, pre, nreq, nstatus>>

\* line 218: await calculate_minimum_profitable_amount(eth_price); lines
\* 220-221 read the ETH balance before the advisory call suspends
status_218(p, g) ==
  /\ pc[p] = "status_218"
  /\ loc' = [loc EXCEPT
               ![p].min_profitable_amount =
                  calculate_minimum_profitable_amount(loc[p].eth_price, g),
               ![p].balance_eth = CURRENT_ETH_BALANCE]
  /\ pc' = [pc EXCEPT ![p] = "status_222"]
  /\ UNCHANGED <<CURRENT_CARD_BALANCE, CURRENT_ETH_BALANCE, resp, pre, nreq, nstatus>>

\* a variant of the step below that carries the suggestion out on the
\* wallet it has declared global (line 214)
status_222_trades(p, reply) ==
  /\ pc[p] = "status_222"
  /\ LET trading_suggestion == get_ai_trading_suggestion(reply, loc[p].balance_eth)
     IN /\ CURRENT_ETH_BALANCE' =
             IF trading_suggestion.action = "sell"
               THEN CURRENT_ETH_BALANCE - trading_suggestion.amount
               ELSE CURRENT_ETH_BALANCE
        /\ resp' = [resp EXCEPT ![p] =
             [code |-> 200, detail |-> "status",
              body |-> [card_balance |-> loc[p].card_balance,
                        eth_balance |-> loc[p].balance_eth,
                        eth_price |-> loc[p].eth_price,
                        gas_price_gwei |-> loc[p].gas_price,
                        min_profitable_amount |-> loc[p].min_profitable_amount,
                        trading_suggestion |-> trading_suggestion,
                        decision |-> check_card_balance(loc[p].card_balance)]]]
  /\ pc' = [pc EXCEPT ![p] = "idle"]
  /\ UNCHANGED <<CURRENT_CARD_BALANCE, loc, pre, nreq, nstatus>>

\* line 222: await get_ai_trading_suggestion(...); lines 224-235
status_222(p, reply) ==
  /\ pc[p] = "status_222"
  /\ resp' = [resp EXCEPT ![p] =
       [code |-> 200, detail |-> "status",
        body |-> [card_balance |-> loc[p].card_balance,
                  eth_balance |-> loc[p].balance_eth,
                  eth_price |-> loc[p].eth_price,
                  gas_price_gwei |-> loc[p].gas_price,
                  min_profitable_amount |-> loc[p].min_profitable_amount,
                  trading_suggestion |->
                    get_ai_trading_suggestion(reply, loc[p].balance_eth),
                  decision |-> check_card_balance(loc[p].card_balance)]]]
  /\ pc' = [pc EXCEPT ![p] = "idle"]
  /\ UNCHANGED <<CURRENT_CARD_BALANCE, CURRENT_ETH_BALANCE, loc, pre, nreq, nstatus>>

\* ------------------------------------------------ /use-card, uninterrupted
\* The results of one /use-card request run without interruption from
\* balances (card, eth): use_card with auto_topup, auto_sell_eth_for_card
\* and simulate_eth_sale inlined, over every oracle and advisory reply.
use_card(card, eth, amount) ==
  IF amount <= 0 THEN {[card |-> card, eth |-> eth, code |-> 422]}
  ELSE UNION {
    LET eth_price == get_eth_price
        checked == use_card_checks(card, amount,
                                   calculate_minimum_profitable_amount(eth_price, g1))
        min_topup == MinTopup(CARD_TARGET_BALANCE - checked.card,
                              calculate_minimum_profitable_amount(eth_price, g2))
        eth_amount == EthAmount(min_topup, calculate_transaction_cost(eth_price, g3),
                                eth_price)
    IN IF checked.raised # "" THEN {[card |-> checked.card, eth |-> eth, code |-> 500]}
       ELSE IF ~NeedsTopup(checked.card)
         THEN {[card |-> checked.card, eth |-> eth, code |-> 200]}
       ELSE IF InsufficientEth(eth_amount, eth)
         THEN {[card |-> checked.card, eth |-> eth, code |-> 500]}
       ELSE {IF AdvisoryHolds(get_ai_trading_suggestion(reply, eth), eth_amount)
               THEN [card |-> checked.card, eth |-> eth, code |-> 500]
               ELSE [card |-> use_card_credit(auto_topup_credit(checked.card, min_topup),
                                              min_topup),
                     eth |-> use_card_debit_eth(simulate_eth_sale(eth, eth_amount),
                                                min_topup, eth_price),
                     code |-> 200]
             : reply \in Replies}
    : g1 \in GasReplies, g2 \in GasReplies, g3 \in GasReplies}


\* --------------------------------------------------------- specifications
\* Requests run one at a time: a single task.
Next ==
  \/ nreq < MaxRequests /\ \E a \in Amounts, c \in Currencies : use_card_begin(Main, a, c)
  \/ use_card_245(Main)
  \/ \E g \in GasReplies : use_card_246(Main, g)
  \/ \E g \in GasReplies : use_card_267(Main, g)
  \/ auto_sell_294(Main)
  \/ \E g \in GasReplies : auto_sell_295(Main, g)
  \/ \E r \in Replies : auto_sell_306(Main, r)
  \/ nstatus < MaxStatus /\ status_begin(Main)
  \/ status_216(Main)
  \/ \E g \in GasReplies : status_217(Main, g)
  \/ \E g \in GasReplies : status_218(Main, g)
  \/ \E r \in Replies : status_222(Main, r)

Spec == Init /\ [][Next]_vars

\* /use-card requests interleave at the awaits: a task per request in flight.
NextInterleaved ==
  \E p \in Tasks :
    \/ nreq < MaxOverlap /\ \E a \in Amounts, c \in Currencies : use_card_begin(p, a, c)
    \/ use_card_245(p)
    \/ \E g \in GasReplies : use_card_246(p, g)
    \/ \E g \in GasReplies : use_card_267(p, g)
    \/ auto_sell_294(p)
    \/ \E g \in GasReplies : auto_sell_295(p, g)
    \/ \E r \in Replies : auto_sell_306(p, r)

SpecInterleaved == Init /\ [][NextInterleaved]_vars

\* ------------------------------------------------- the functions, applied
\* The calculators, the threshold evaluation and the advisory parser are
\* functions of their arguments.  SpecFunctions draws arguments and applies
\* them: the price, card balance and ETH balance passed are Main's locals,
\* the result is left in Main's response slot, one call per behaviour.
PriceInputs == {100, 500, 1000, 1800, 2000, 2500, 3000, 4000}
FeeInputs ==
  {[ok |-> FALSE, gwei |-> 0]}
    \cup {[ok |-> TRUE, gwei |-> n] : n \in {0, 1, 50, 1133, 1134, 1500, 1501, 3000}}
BalanceInputs ==
  {0, 799960, 80 * USD, 999900, 999999, 100 * USD, 1000001, 250 * USD}
EthInputs == {0 - 6050000, 0, 75950000, ETH \div 5, 2 * ETH}

InitFunctions ==
  /\ CURRENT_CARD_BALANCE = 200 * USD
  /\ CURRENT_ETH_BALANCE = ETH \div 5
  /\ pc = [p \in Tasks |-> "idle"]
  /\ \E price \in PriceInputs, balance \in BalanceInputs, balance_eth \in EthInputs :
       loc = [p \in Tasks |->
                IF p = Main
                  THEN [NoLocals EXCEPT !.handler = "function", !.eth_price = price,
                                        !.card_balance = balance,
                                        !.balance_eth = balance_eth]
                  ELSE NoLocals]
  /\ resp = [p \in Tasks |-> NoResponse]
  /\ pre = [p \in Tasks |-> [card |-> 200 * USD, eth |-> ETH \div 5]]
  /\ nreq = 0
  /\ nstatus = 0

\* calculate_minimum_profitable_amount(eth_price) with the fee oracle
\* replying g, beside calculate_transaction_cost(eth_price) for the same g
call_calculate_minimum_profitable_amount(g) ==
  /\ loc[Main].handler = "function"
  /\ resp[Main] = NoResponse
  /\ resp' = [resp EXCEPT ![Main] =
       [code |-> 0, detail |-> "calculate_minimum_profitable_amount",
        body |-> [eth_price |-> loc[Main].eth_price,
                  gas_price_gwei |-> get_gas_price(g),
                  tx_cost_usd |-> calculate_transaction_cost(loc[Main].eth_price, g),
                  min_profitable_amount |->
                    calculate_minimum_profitable_amount(loc[Main].eth_price, g)]]]
  /\ UNCHANGED <<CURRENT_CARD_BALANCE, CURRENT_ETH_BALANCE, pc, loc, pre, nreq, nstatus>>

\* check_card_balance(balance)
call_check_card_balance ==
  /\ loc[Main].handler = "function"
  /\ resp[Main] = NoResponse
  /\ resp' = [resp EXCEPT ![Main] =
       [code |-> 0, detail |-> "check_card_balance",
        body |-> [balance |-> loc[Main].card_balance,
                  decision |-> check_card_balance(loc[Main].card_balance)]]]
  /\ UNCHANGED <<CURRENT_CARD_BALANCE, CURRENT_ETH_BALANCE, pc, loc, pre, nreq, nstatus>>

\* get_ai_trading_suggestion(balance_eth, eth_price) with the text
\* generator replying reply
call_get_ai_trading_suggestion(reply) ==
  /\ loc[Main].handler = "function"
  /\ resp[Main] = NoResponse
  /\ resp' = [resp EXCEPT ![Main] =
       [code |-> 0, detail |-> "get_ai_trading_suggestion",
        body |-> [reply |-> reply,
                  balance_eth |-> loc[Main].balance_eth,
                  suggestion |->
                    get_ai_trading_suggestion(reply, loc[Main].balance_eth)]]]
  /\ UNCHANGED <<CURRENT_CARD_BALANCE, CURRENT_ETH_BALANCE, pc, loc, pre, nreq, nstatus>>

NextFunctions ==
  \/ \E g \in FeeInputs : call_calculate_minimum_profitable_amount(g)
  \/ call_check_card_balance
  \/ \E r \in Replies : call_get_ai_trading_suggestion(r)

SpecFunctions == InitFunctions /\ [][NextFunctions]_vars

\* ------------------------------------------------------------------ claims
\* Task Main is at rest after a /use-card request it served.
Returned == pc[Main] = "idle" /\ loc[Main].handler = "use_card"
Succeeded == Returned /\ resp[Main].code = 200
\* the card balance right after the withdrawal of Main's request
NewCard == pre[Main].card - loc[Main].amount_usd
\* the request's withdrawal dropped the card below the threshold
ToppedUp == Succeeded /\ NewCard < CARD_MIN_THRESHOLD
EarlyRejections ==
  {"validation error", "Amount too low for profitable transaction", "Insufficient card balance"}
SellFailures == {"Insufficient ETH balance", "AI suggests holding"}

\* C1: at every rest point between requests run one at a time, the card
\* balance and the wallet balance are both >= 0.
C1_BalancesNonNegative ==
  pc[Main] = "idle" => CURRENT_CARD_BALANCE >= 0 /\ CURRENT_ETH_BALANCE >= 0

\* C2: when a successful withdrawal leaves the card below 100, the card
\* balance at return is newCard + topUpAmount: the top-up is credited once.
C2_TopUpCreditedOnce ==
  ToppedUp =>
    /\ loc[Main].min_topup \in
         {MinTopup(CARD_TARGET_BALANCE - NewCard,
                   calculate_minimum_profitable_amount(get_eth_price, g)) : g \in GasReplies}
    /\ CURRENT_CARD_BALANCE = NewCard + loc[Main].min_topup

\* C3: in a request whose top-up succeeds the wallet decreases by exactly
\* the ETH amount of the sell step, (topUpAmount * 1.05 + cost) / price.
C3_WalletDecreasesBySaleOnly ==
  ToppedUp =>
    /\ loc[Main].eth_amount \in
         {EthAmount(loc[Main].min_topup,
                    calculate_transaction_cost(get_eth_price, g), get_eth_price) :
            g \in GasReplies}
    /\ CURRENT_ETH_BALANCE = pre[Main].eth - loc[Main].eth_amount

\* C4: a request rejected at validation, at the profitability check or at
\* the sufficiency check leaves the card and the wallet as they were.
C4_EarlyRejectionChangesNothing ==
  (Returned /\ resp[Main].detail \in EarlyRejections) =>
    /\ CURRENT_CARD_BALANCE = pre[Main].card
    /\ CURRENT_ETH_BALANCE = pre[Main].eth

\* a repeated request was rejected for insufficient card balance
C4_Witness ==
  /\ Returned
  /\ nreq >= 2
  /\ resp[Main].detail = "Insufficient card balance"
  /\ loc[Main].amount_usd > CURRENT_CARD_BALANCE
  /\ CURRENT_CARD_BALANCE = pre[Main].card

\* C5: a request rejected as too low or for insufficient card balance is
\* answered with status 400.
C5_BusinessRuleErrorsAre400 ==
  (Returned /\ resp[Main].detail \in
      {"Amount too low for profitable transaction", "Insufficient card balance"}) =>
    resp[Main].code = 400

\* C6: when the sell step fails after the withdrawal, at return the card
\* is the pre-request balance minus the amount (no top-up credit) and the
\* wallet is unchanged.
C6_SellFailureKeepsWithdrawal ==
  (Returned /\ resp[Main].detail \in SellFailures) =>
    /\ CURRENT_CARD_BALANCE = pre[Main].card - loc[Main].amount_usd
    /\ CURRENT_ETH_BALANCE = pre[Main].eth

\* the sale needed more ETH than the wallet holds, after a withdrawal
C6_Witness ==
  /\ Returned
  /\ resp[Main].detail = "Insufficient ETH balance"
  /\ resp[Main].code = 500
  /\ loc[Main].eth_amount > CURRENT_ETH_BALANCE
  /\ loc[Main].amount_usd > 0
  /\ CURRENT_CARD_BALANCE = pre[Main].card - loc[Main].amount_usd

\* C7: the advisory veto is reachable: whenever the sell step awaits the
\* advisory call, some reply parses and clamps to hold with an amount
\* above the sale amount.
C7_VetoReachable ==
  pc[Main] = "auto_sell_306" =>
    \E reply \in Replies :
      AdvisoryHolds(get_ai_trading_suggestion(reply, loc[Main].balance_eth),
                    loc[Main].eth_amount)

\* No request is ever answered with the advisory-holding error: every
\* hold suggestion carries amount 0 and every sale amount is positive.
AdvisoryNeverVetoes ==
  \A p \in Tasks :
    /\ resp[p].detail # "AI suggests holding"
    /\ pc[p] = "auto_sell_306" =>
         /\ loc[p].eth_amount > 0
         /\ \A reply \in Replies :
              LET s == get_ai_trading_suggestion(reply, loc[p].balance_eth)
              IN s.action = "hold" => s.amount = 0

\* C8: a request that succeeds after its withdrawal dropped the card below
\* 100 ends with the card >= 200, and every successful request leaves the
\* card >= 100.
C8_SuccessLeavesCardFunded ==
  /\ ToppedUp => CURRENT_CARD_BALANCE >= CARD_TARGET_BALANCE
  /\ Succeeded => CURRENT_CARD_BALANCE >= CARD_MIN_THRESHOLD

\* a withdrawal to below 100 was followed by a successful top-up
C8_Witness ==
  /\ ToppedUp
  /\ loc[Main].min_topup > 0
  /\ CURRENT_CARD_BALANCE >= CARD_TARGET_BALANCE

\* What the first two requests of the service, of amounts a1 (task 1) and
\* a2 (task 2), can leave when they run one after the other, in either
\* order: <<card, wallet, status of task 1, status of task 2>>.
SerialOutcomes(a1, a2) ==
  UNION {{<<r2.card, r2.eth, r1.code, r2.code>> : r2 \in use_card(r1.card, r1.eth, a2)} :
           r1 \in use_card(200 * USD, ETH \div 5, a1)}
    \cup
  UNION {{<<r1.card, r1.eth, r1.code, r2.code>> : r1 \in use_card(r2.card, r2.eth, a1)} :
           r2 \in use_card(200 * USD, ETH \div 5, a2)}

\* task p's request sold ETH and returned success
Sold(p) ==
  /\ pc[p] = "idle"
  /\ loc[p].handler = "use_card"
  /\ resp[p].code = 200
  /\ loc[p].eth_amount > 0
\* the first two requests, one per task, both passed the insufficient-ETH
\* check against the same wallet balance and both sold
BothSoldOnOneBalance ==
  /\ nreq = 2
  /\ Sold(1)
  /\ Sold(2)
  /\ loc[1].balance_eth = loc[2].balance_eth

\* C9: two /use-card requests interleaved at the awaits are not
\* serializable: when both pass the insufficient-ETH check against the same
\* wallet balance and both sell, the balances and statuses they leave are
\* those of no serial execution of the same two requests.
C9_InterleavingNotSerializable ==
  BothSoldOnOneBalance =>
    <<CURRENT_CARD_BALANCE, CURRENT_ETH_BALANCE, resp[1].code, resp[2].code>>
      \notin SerialOutcomes(loc[1].amount_usd, loc[2].amount_usd)

\* both requests sold on one wallet balance and overdrew the wallet, which
\* no serial execution of the two does
C9_Witness ==
  /\ BothSoldOnOneBalance
  /\ loc[1].eth_amount + loc[2].eth_amount > loc[1].balance_eth
  /\ <<CURRENT_CARD_BALANCE, CURRENT_ETH_BALANCE, resp[1].code, resp[2].code>>
       \notin SerialOutcomes(loc[1].amount_usd, loc[2].amount_usd)

\* Run one at a time, every request leaves a result of use_card above.
SerialRunsAgree ==
  Returned =>
    [card |-> CURRENT_CARD_BALANCE, eth |-> CURRENT_ETH_BALANCE, code |-> resp[Main].code]
      \in use_card(pre[Main].card, pre[Main].eth, loc[Main].amount_usd)

\* C10: a suggestion with action sell has an amount that is non-negative
\* and at most half of the balance passed in.
C10_SellAtMostHalfBalance ==
  (pc[Main] = "idle" /\ resp[Main].detail = "status"
     /\ resp[Main].body.trading_suggestion.action = "sell") =>
    /\ resp[Main].body.trading_suggestion.amount >= 0
    /\ 2 * resp[Main].body.trading_suggestion.amount <= resp[Main].body.eth_balance

\* C11: for every price and every fee rate, the minimum profitable amount
\* returned (after rounding to 2 decimals) is at least the fixed minimum 50
\* and at least the transaction cost times 1.05.  PROFIT_MARGIN is in
\* hundredths, so the second comparison is made on both sides times 100.
C11_MinimumCoversCostAndMargin ==
  resp[Main].detail = "calculate_minimum_profitable_amount" =>
    /\ resp[Main].body.min_profitable_amount >= MINIMUM_PROFITABLE_USD
    /\ resp[Main].body.min_profitable_amount * 100
         >= resp[Main].body.tx_cost_usd * PROFIT_MARGIN

\* the part of C11 that rounding leaves intact: the fixed minimum is a floor
MinimumAtLeastFixedMinimum ==
  resp[Main].detail = "calculate_minimum_profitable_amount" =>
    resp[Main].body.min_profitable_amount >= MINIMUM_PROFITABLE_USD

\* C12 as stated: check_card_balance is a function of its argument; below
\* 100 it returns top-up with amount 200 - balance, from 100 on it returns
\* skip with amount 0, and it leaves the card and wallet balances alone.
C12_ThresholdDecisionExact ==
  resp[Main].detail = "check_card_balance" =>
    /\ resp[Main].body.balance < CARD_MIN_THRESHOLD =>
         /\ resp[Main].body.decision.action = "top-up"
         /\ resp[Main].body.decision.amount
              = CARD_TARGET_BALANCE - resp[Main].body.balance
    /\ resp[Main].body.balance >= CARD_MIN_THRESHOLD =>
         /\ resp[Main].body.decision.action = "skip"
         /\ resp[Main].body.decision.amount = 0
    /\ CURRENT_CARD_BALANCE = pre[Main].card
    /\ CURRENT_ETH_BALANCE = pre[Main].eth

\* C12 amended: below 100 the amount is 200 - balance rounded to whole
\* cents (within half a cent of 200 - balance, and equal to it when the
\* balance is in whole cents); from 100 on the decision is skip with amount
\* 0; the card and wallet balances are left alone.
C12_ThresholdDecisionRounded ==
  resp[Main].detail = "check_card_balance" =>
    /\ resp[Main].body.balance < CARD_MIN_THRESHOLD =>
         /\ resp[Main].body.decision.action = "top-up"
         /\ resp[Main].body.decision.amount % CENT = 0
         /\ 2 * Abs(resp[Main].body.decision.amount
                      - (CARD_TARGET_BALANCE - resp[Main].body.balance)) <= CENT
         /\ resp[Main].body.balance % CENT = 0 =>
              resp[Main].body.decision.amount
                = CARD_TARGET_BALANCE - resp[Main].body.balance
    /\ resp[Main].body.balance >= CARD_MIN_THRESHOLD =>
         /\ resp[Main].body.decision.action = "skip"
         /\ resp[Main].body.decision.amount = 0
    /\ CURRENT_CARD_BALANCE = pre[Main].card
    /\ CURRENT_ETH_BALANCE = pre[Main].eth

\* a balance of 79.996 evaluated: top-up of 120.00, not 120.004
C12_Witness ==
  /\ resp[Main].detail = "check_card_balance"
  /\ resp[Main].body.balance = 799960
  /\ resp[Main].body.decision = [action |-> "top-up", amount |-> 120 * USD]

\* C13: a status request is read-only; at every step of it and after it,
\* whatever the fee oracle and the advisory replied, the card balance and
\* the wallet balance are the ones the request found.
C13_StatusReadOnly ==
  loc[Main].handler = "status" =>
    /\ CURRENT_CARD_BALANCE = pre[Main].card
    /\ CURRENT_ETH_BALANCE = pre[Main].eth

\* a status request answered with a sell suggestion of a positive amount,
\* on balances that an earlier purchase had moved
C13_Witness ==
  /\ loc[Main].handler = "status"
  /\ pc[Main] = "idle"
  /\ resp[Main].code = 200
  /\ resp[Main].body.trading_suggestion.action = "sell"
  /\ resp[Main].body.trading_suggestion.amount > 0
  /\ CURRENT_CARD_BALANCE # 200 * USD
  /\ CURRENT_ETH_BALANCE # ETH \div 5

\* what the loop of lines 162-171 extracts from a reply that arrived
Parsed(reply) ==
  ParseLines(reply.lines, 1,
             [action |-> "hold", amount |-> 0,
              reason |-> "Unable to parse AI suggestion", raised |-> FALSE])

\* the request failed, the float() of an AMOUNT line raised, or the action
\* extracted is neither buy nor sell
FailedOrOtherAction(reply) ==
  \/ ~reply.ok
  \/ Parsed(reply).raised
  \/ Parsed(reply).action \notin {"buy", "sell"}

\* C14 as stated: the suggestion's action is buy, sell or hold; a buy has
\* amount min(0.5, balance * 0.5) whatever amount was parsed; any failure or
\* any other parsed action gives hold with amount 0.
C14_SuggestionShapeExact ==
  resp[Main].detail = "get_ai_trading_suggestion" =>
    /\ resp[Main].body.suggestion.action \in {"buy", "sell", "hold"}
    /\ resp[Main].body.suggestion.action = "buy" =>
         2 * resp[Main].body.suggestion.amount
           = Min(ETH, resp[Main].body.balance_eth)
    /\ FailedOrOtherAction(resp[Main].body.reply) =>
         /\ resp[Main].body.suggestion.action = "hold"
         /\ resp[Main].body.suggestion.amount = 0

\* C14 amended: as above, but a buy has the absolute value of
\* min(0.5, balance * 0.5) rounded to 4 decimals: a non-negative multiple of
\* 0.0001 within 0.00005 of that absolute value.
C14_SuggestionShapeRounded ==
  resp[Main].detail = "get_ai_trading_suggestion" =>
    /\ resp[Main].body.suggestion.action \in {"buy", "sell", "hold"}
    /\ resp[Main].body.suggestion.action = "buy" =>
         /\ resp[Main].body.suggestion.amount >= 0
         /\ resp[Main].body.suggestion.amount % ETH4 = 0
         /\ Abs(2 * resp[Main].body.suggestion.amount
                  - Abs(Min(ETH, resp[Main].body.balance_eth))) <= ETH4
    /\ FailedOrOtherAction(resp[Main].body.reply) =>
         /\ resp[Main].body.suggestion.action = "hold"
         /\ resp[Main].body.suggestion.amount = 0

\* a buy advised on a wallet of 0.07595 ETH with a parsed amount of 2 ETH:
\* the suggestion carries 0.038, not 0.037975 and not 2
C14_Witness ==
  /\ resp[Main].detail = "get_ai_trading_suggestion"
  /\ resp[Main].body.balance_eth = 75950000
  /\ resp[Main].body.reply.ok
  /\ Parsed(resp[Main].body.reply).amount = 2 * ETH
  /\ resp[Main].body.suggestion.action = "buy"
  /\ resp[Main].body.suggestion.amount = 380 * ETH4

\* a reply whose AMOUNT line does not parse, after an ACTION line of BUY
C14_WitnessFailure ==
  /\ resp[Main].detail = "get_ai_trading_suggestion"
  /\ resp[Main].body.reply.ok
  /\ Parsed(resp[Main].body.reply).raised
  /\ Parsed(resp[Main].body.reply).action = "buy"
  /\ resp[Main].body.suggestion.action = "hold"

\* Main's request has passed both checks and made its withdrawal
Withdrawn ==
  /\ loc[Main].handler = "use_card"
  /\ pc[Main] \notin {"use_card_245", "use_card_246"}
  /\ resp[Main].detail \notin EarlyRejections
\* Main's request took the branch of line 263: it computed the gap to the
\* target (line 266) on its way into auto_topup
TopUpEntered == loc[Main].target_gap # 0

\* C15: a request that has made its withdrawal enters the top-up
\* sub-sequence exactly when the card balance right after the withdrawal is
\* below 100; otherwise it is done at once, successfully, with the card at
\* the old balance minus the amount and the wallet untouched.
C15_TopUpIffBelowThreshold ==
  Withdrawn =>
    /\ TopUpEntered <=> NewCard < CARD_MIN_THRESHOLD
    /\ NewCard >= CARD_MIN_THRESHOLD =>
         /\ Succeeded
         /\ CURRENT_CARD_BALANCE = NewCard
         /\ CURRENT_ETH_BALANCE = pre[Main].eth

\* a withdrawal that leaves exactly 100 on the card: done without a top-up
C15_Witness ==
  /\ Withdrawn
  /\ Succeeded
  /\ NewCard = CARD_MIN_THRESHOLD
  /\ ~TopUpEntered
  /\ CURRENT_CARD_BALANCE = CARD_MIN_THRESHOLD

\* a withdrawal that leaves less than 100: the sub-sequence is under way
C15_WitnessEntered ==
  /\ Withdrawn
  /\ pc[Main] = "auto_sell_306"
  /\ NewCard < CARD_MIN_THRESHOLD
  /\ TopUpEntered

\* Main's request asks for less than the minimum profitable amount it was
\* quoted and for more than the card held when it arrived
UnprofitableAndUncovered ==
  /\ Returned
  /\ loc[Main].amount_usd < loc[Main].min_profitable_amount
  /\ loc[Main].amount_usd > pre[Main].card

\* C16: the checks run in the order profitability, sufficiency, withdrawal:
\* a request that fails both checks is refused as too low, and the card
\* balance moves during a request only once the request has passed both.
C16_ChecksInOrder ==
  loc[Main].handler = "use_card" =>
    /\ UnprofitableAndUncovered =>
         resp[Main].detail = "Amount too low for profitable transaction"
    /\ CURRENT_CARD_BALANCE # pre[Main].card =>
         /\ Withdrawn
         /\ loc[Main].amount_usd >= loc[Main].min_profitable_amount
         /\ loc[Main].amount_usd <= pre[Main].card

\* a request for 40 quoted a minimum of 50 while the card holds less than 40
C16_Witness ==
  /\ UnprofitableAndUncovered
  /\ resp[Main].detail = "Amount too low for profitable transaction"
  /\ CURRENT_CARD_BALANCE = pre[Main].card

\* C17: the card balance is never negative, in any state of any
\* interleaving of use-card requests at their suspension points: the
\* sufficiency check and the debit are one step.
C17_CardNeverNegative == CURRENT_CARD_BALANCE >= 0

\* two requests in flight: one arrived when the card covered its amount and
\* is refused for insufficient balance, the other having debited the card
\* in between and not yet returned
C17_Witness ==
  \E p \in Tasks, q \in Tasks :
    /\ p # q
    /\ pc[p] = "idle"
    /\ resp[p].detail = "Insufficient card balance"
    /\ pre[p].card >= loc[p].amount_usd
    /\ loc[p].amount_usd >= loc[p].min_profitable_amount
    /\ pc[q] \notin {"idle", "use_card_245", "use_card_246"}
    /\ CURRENT_CARD_BALANCE < loc[p].amount_usd

\* the fiat total of a card balance and a wallet balance at the price in
\* force (1/10000 USD)
Total(card, eth_balance) == card + MulDiv(eth_balance, get_eth_price, ETH \div USD)

\* C18: no step of a use-card or status request increases the total of the
\* card balance and the wallet balance valued at the price: what a top-up
\* credits to the card never exceeds the value of the ETH the same request
\* takes from the wallet.
C18_NoValueCreated ==
  [][Total(CURRENT_CARD_BALANCE', CURRENT_ETH_BALANCE')
       <= Total(CURRENT_CARD_BALANCE, CURRENT_ETH_BALANCE)]_vars

\* a request returned after a top-up: the card was credited, the wallet
\* debited, and the total is below the total right after the withdrawal
C18_Witness ==
  /\ ToppedUp
  /\ CURRENT_CARD_BALANCE > NewCard
  /\ CURRENT_ETH_BALANCE < pre[Main].eth
  /\ Total(CURRENT_CARD_BALANCE, CURRENT_ETH_BALANCE)
       < Total(NewCard, pre[Main].eth)

====
